---- MODULE Spec2Model ----
(***************************************************************************)
(* A model of the drug-drug-interaction query API (app/routes/routes.py). *)
(*                                                                         *)
(* The store is read-only: its tables are chosen in the initial state and  *)
(* never change.  A request is served in three steps, as FastAPI serves    *)
(* it: the get_db dependency opens a session, the endpoint's handler runs  *)
(* and produces the response, and get_db's finally clause closes the       *)
(* session.                                                                *)
(*                                                                         *)
(* Encodings.  Column values and parameters that are strings are TLA+      *)
(* strings; SQL NULL / Python None in a string column is the value NULL.   *)
(* A float rate is a natural number of rate units and a score (a quotient  *)
(* of two rates) is the exact fraction [num, den], so float rounding is    *)
(* not modelled.  A table is the sequence of its rows in the order in      *)
(* which the store returns them to a query without ORDER BY.               *)
(*                                                                         *)
(* What the code leaves to the interpreter and its libraries is the        *)
(* variable runtime, chosen in the initial state and fixed for the life of *)
(* the process: the iteration order of a set of strings (it depends on the *)
(* process's hash seed) and the order in which pandas' default, unstable   *)
(* sort leaves rows of equal key.                                          *)
(*                                                                         *)
(* served is a history variable: the exchanges (request, response) that    *)
(* were completed, which the repeated-request specification records to     *)
(* compare the answers given to one request.  threads and sessions hold    *)
(* the requests that worker threads serve at the same time, statement by   *)
(* statement, in the concurrent specification; the other specifications    *)
(* serve one request at a time and leave them empty.                       *)
(***************************************************************************)
EXTENDS Integers, Sequences, FiniteSets, TLC

VARIABLES store, runtime, request, store_raises, response, db,
          served, threads, sessions

vars == <<store, runtime, request, store_raises, response, db,
          served, threads, sessions>>

(***************************************************************************)
(* Bounds of the model.                                                    *)
(***************************************************************************)
\* rows of barkla_weighted_rate in the culprit-drug specification
MaxBarklaRows == 3
\* most-likely-side-effects specification: rows of any content that precede
\* the one-row-per-side-effect part of barkla_weighted_rate, and the largest
\* number of side effects in that part
MaxFreeRows == 2
MaxEffects == 11
\* FAERS specification: aspirin rows with one side effect each, then rows of
\* any content
MaxFaersRows == 6
MaxFaersFree == 2
\* rows of sider_drug_indications in the alternative-search specification
MaxIndicationRows == 3
\* rows of pt_to_hlt_or_hlgt in the ancestor specification
MaxMappingRows == 3
\* rows of patients, prescriptions, diagnoses and admissions in the
\* specifications of the clinical-records endpoints
MaxPatientRows == 2
MaxPrescriptionRows == 2
MaxDiagnosisRows == 2
MaxAdmissionRows == 2
\* rows of all_drug_drug_interactions in the interactions specification
MaxInteractionRows == 3
\* rows of single_drug_positive_controls, and rows of the mapping table in
\* the specification of /side_effects_names
MaxControlRows == 2
MaxNameMappingRows == 2
\* rows of the mapping table in the specifications of a service with
\* several endpoints
MaxServiceRows == 2
\* rows of barkla_weighted_rate in the concurrent specification
MaxSharedRows == 2

(***************************************************************************)
(* Generic helpers.                                                        *)
(***************************************************************************)
NULL == "NULL"

SeqsUpTo(S, n) == UNION {[1..k -> S] : k \in 0..n}

Range(s) == {s[i] : i \in DOMAIN s}

\* Python's str.lower() on the names the model uses.
Lower(s) ==
    CASE s = "Aspirin" -> "aspirin"
      [] s = "Warfarin" -> "warfarin"
      [] s = "Headache" -> "headache"
      [] s = "Nausea" -> "nausea"
      [] OTHER -> s

\* [x.lower() for x in xs]
LowerAll(xs) == [i \in DOMAIN xs |-> Lower(xs[i])]

\* SQL `column IN (list)`: NULL is in no list.
SqlIn(v, list) == v # NULL /\ v \in Range(list)

(***************************************************************************)
(* Responses.                                                              *)
(***************************************************************************)
NoRequest == [endpoint |-> "none"]
NoResponse == [status |-> 0]

\* a handler's return value, sent with status 200
Ok(body) == [status |-> 200, body |-> body]

\* raise HTTPException(status_code=..., detail=...)
HTTPException(status_code, detail) == [status |-> status_code, detail |-> detail]

\* str(e) of the exception a failing store query raises
StoreError == "store error"

EmptyStore ==
    [AllDrugDrugInteractions |-> <<>>, SingleDrugPositiveControls |-> <<>>,
     BarklaData |-> <<>>, FAERSData |-> <<>>, SiderDrugIndications |-> <<>>,
     PTtoHLTMapping |-> <<>>, Patient |-> <<>>, Prescription |-> <<>>,
     Diagnosis |-> <<>>, D_Icd |-> <<>>, Admission |-> <<>>]

\* one process: sets iterate in the order of set_order, sort_values leaves
\* equal keys in their original order, and Column.in_ takes any iterable
\* (some SQLAlchemy releases take sequences only and reject a set)
DefaultRuntime ==
    [set_order |-> <<>>, sort_ties |-> "kept", in_takes_set |-> TRUE]

\* list(a_set) / iterating a set of strings
SetToList(S) == SelectSeq(runtime.set_order, LAMBDA x : x \in S)

(***************************************************************************)
(* The session dependency.                                                 *)
(***************************************************************************)
\* db = SessionLocal(); yield db -- a request from Reqs arrives and gets its
\* session; store_raises says whether the store fails this request's queries.
get_db(Reqs) ==
    /\ db # "open"
    /\ \E r \in Reqs, f \in BOOLEAN :
          /\ request' = r
          /\ store_raises' = f
    /\ db' = "open"
    /\ response' = NoResponse
    /\ UNCHANGED <<store, runtime, served, threads, sessions>>

\* a plausible slip: db.close() after the yield, without try/finally, so
\* that it runs only when the request did not fail
db_close_without_finally ==
    /\ db = "open"
    /\ response # NoResponse
    /\ response.status = 200
    /\ db' = "closed"
    /\ UNCHANGED <<store, runtime, request, store_raises, response,
                   served, threads, sessions>>

\* finally: db.close()
db_close ==
    /\ db = "open"
    /\ response # NoResponse
    /\ db' = "closed"
    /\ UNCHANGED <<store, runtime, request, store_raises, response,
                   served, threads, sessions>>

\* no exchange recorded and no request served by a worker thread
NoHistory ==
    /\ served = {}
    /\ threads = <<>>
    /\ sessions = <<>>

\* the handler of endpoint ep runs next
Handling(ep) ==
    /\ db = "open"
    /\ response = NoResponse
    /\ request.endpoint = ep

\* the handler of endpoint ep has produced the response
Responded(ep) ==
    /\ request.endpoint = ep
    /\ response # NoResponse

(***************************************************************************)
(* Fractions (scores).                                                     *)
(***************************************************************************)
Frac(n, d) == [num |-> n, den |-> d]

\* a >= b, for positive denominators
FracGeq(a, b) == a.num * b.den >= b.num * a.den

FracEq(a, b) == a.num * b.den = b.num * a.den

FracAdd(a, b) == Frac(a.num * b.den + b.num * a.den, a.den * b.den)

(***************************************************************************)
(* /culprit_drug                                                           *)
(***************************************************************************)
RECURSIVE SumRates(_)
SumRates(rows) ==
    IF rows = <<>> THEN 0
    ELSE rows[1].combined_rate + SumRates(Tail(rows))

RECURSIVE MaxRateOf(_)
MaxRateOf(rows) ==
    IF rows = <<>> THEN 0
    ELSE LET m == MaxRateOf(Tail(rows))
         IN IF rows[1].combined_rate > m THEN rows[1].combined_rate ELSE m

\* a plausible slip: the largest rate instead of the sum of the rates
total_combined_rate_max(barkla_data) == MaxRateOf(barkla_data)

\* total_combined_rate = sum(row.combined_rate for row in barkla_data)
total_combined_rate(barkla_data) == SumRates(barkla_data)

\* db.query(BarklaData).filter(side_effect == ..., drug_name.in_(...)).all()
culprit_query(side_effect, drug_list) ==
    SelectSeq(store.BarklaData,
              LAMBDA row : /\ row.side_effect # NULL
                           /\ row.side_effect = side_effect
                           /\ SqlIn(row.drug_name, drug_list))

\* for row in barkla_data: row.score = row.combined_rate / total_combined_rate
with_scores(barkla_data, total) ==
    [i \in DOMAIN barkla_data |->
        [drug_name |-> barkla_data[i].drug_name,
         combined_rate |-> barkla_data[i].combined_rate,
         score |-> Frac(barkla_data[i].combined_rate, total)]]

\* x goes after every element whose score is >= its own: a stable insertion
RECURSIVE InsertByScore(_, _)
InsertByScore(x, sorted) ==
    IF sorted = <<>> THEN <<x>>
    ELSE IF FracGeq(sorted[1].score, x.score)
         THEN <<sorted[1]>> \o InsertByScore(x, Tail(sorted))
         ELSE <<x>> \o sorted

RECURSIVE StableSortDesc(_)
StableSortDesc(rows) ==
    IF rows = <<>> THEN <<>>
    ELSE InsertByScore(rows[Len(rows)], StableSortDesc(SubSeq(rows, 1, Len(rows) - 1)))

Reverse(s) == [i \in DOMAIN s |-> s[Len(s) + 1 - i]]

\* a plausible slip: sorted(barkla_data, key=...)[::-1], which reverses ties
sorted_by_score_reversed(rows) == StableSortDesc(Reverse(rows))

\* sorted(barkla_data, key=lambda x: x.score, reverse=True): Python's sort is
\* stable, and reverse=True keeps equal keys in their original order
sorted_by_score(rows) == StableSortDesc(rows)

culprit_drug(side_effect_in, drug_list_in) ==
    LET drug_list == LowerAll(drug_list_in)
        side_effect == Lower(side_effect_in)
        barkla_data == culprit_query(side_effect, drug_list)
        total == total_combined_rate(barkla_data)
    IN  IF store_raises THEN HTTPException(500, StoreError)
        ELSE IF barkla_data = <<>> THEN Ok(<<>>)
        ELSE IF total = 0 THEN HTTPException(500, "float division by zero")
        ELSE Ok(sorted_by_score(with_scores(barkla_data, total)))

get_culprit_drug ==
    /\ Handling("/culprit_drug")
    /\ response' = culprit_drug(request.side_effect, request.drug_list)
    /\ UNCHANGED <<store, runtime, request, store_raises, db, served, threads, sessions>>

BarklaRates == 0..2

CulpritRows ==
    [side_effect : {"headache", "nausea"},
     drug_name : {"aspirin", "warfarin"},
     combined_rate : BarklaRates]

CulpritRequests ==
    [endpoint : {"/culprit_drug"},
     side_effect : {"Headache", "nausea"},
     drug_list : {<<"Aspirin", "warfarin">>, <<"warfarin">>}]

InitCulprit ==
    /\ \E rows \in SeqsUpTo(CulpritRows, MaxBarklaRows) :
          store = [EmptyStore EXCEPT !.BarklaData = rows]
    /\ runtime = DefaultRuntime
    /\ request = NoRequest
    /\ store_raises = FALSE
    /\ response = NoResponse
    /\ db = "none"
    /\ NoHistory

NextCulprit ==
    \/ get_db(CulpritRequests)
    \/ get_culprit_drug
    \/ db_close

SpecCulprit == InitCulprit /\ [][NextCulprit]_vars

\* what the handler retrieved for the current /culprit_drug request, scored
CulpritRetrieved ==
    LET rows == culprit_query(Lower(request.side_effect), LowerAll(request.drug_list))
    IN  with_scores(rows, SumRates(rows))

RECURSIVE SumScores(_)
SumScores(entries) ==
    IF entries = <<>> THEN Frac(0, 1)
    ELSE FracAdd(entries[1].score, SumScores(Tail(entries)))

CulpritReturnedList ==
    /\ Responded("/culprit_drug")
    /\ response.status = 200
    /\ response.body # <<>>

\* C1: whenever /culprit_drug returns a non-empty list, every score is the
\* row's combined_rate over the sum of combined_rate of all retrieved rows,
\* and the scores of the returned entries sum to 1.
C1_ScoresSumToOne ==
    CulpritReturnedList =>
        /\ FracEq(SumScores(response.body), Frac(1, 1))
        /\ \A i \in DOMAIN response.body :
              /\ response.body[i].score.den # 0
              /\ response.body[i].score.num = response.body[i].combined_rate

C1_Witness ==
    /\ CulpritReturnedList
    /\ Len(response.body) >= 2
    /\ \E i, j \in DOMAIN response.body :
          response.body[i].combined_rate # response.body[j].combined_rate

\* C2: the list /culprit_drug returns is non-increasing by score, has one
\* entry per retrieved row, and rows of equal score keep the order in which
\* the store returned them.
C2_RankedStable ==
    CulpritReturnedList =>
        /\ Len(response.body) = Len(CulpritRetrieved)
        /\ \A i, j \in DOMAIN response.body :
              i < j => FracGeq(response.body[i].score, response.body[j].score)
        /\ \A e \in Range(CulpritRetrieved) :
              SelectSeq(response.body, LAMBDA x : FracEq(x.score, e.score))
                = SelectSeq(CulpritRetrieved, LAMBDA x : FracEq(x.score, e.score))

\* two retrieved rows tie and a later, larger one overtook them
C2_Witness ==
    /\ CulpritReturnedList
    /\ response.body # CulpritRetrieved
    /\ \E i, j \in DOMAIN response.body :
          /\ i < j
          /\ FracEq(response.body[i].score, response.body[j].score)
          /\ response.body[i].drug_name # response.body[j].drug_name
(***************************************************************************)
(* /most_likely_side_effects                                               *)
(***************************************************************************)
\* barkla_data.head(10)
TopSideEffects == 10

\* side-effect names in ascending string order (the order groupby sorts by)
SideEffectNames ==
    <<"anaemia", "bruising", "cough", "dizziness", "eczema", "fatigue",
      "gout", "headache", "insomnia", "jaundice", "ketosis", "lethargy",
      "myalgia", "nausea", "vomiting">>

Min(a, b) == IF a <= b THEN a ELSE b

\* db.query(BarklaData).with_entities(...).filter(drug_name.in_(...)).all()
most_likely_query(drug_list) ==
    SelectSeq(store.BarklaData, LAMBDA row : SqlIn(row.drug_name, drug_list))

\* barkla_data[barkla_data['side_effect'] == side_effect]
rows_of_side_effect(barkla_data, side_effect) ==
    SelectSeq(barkla_data, LAMBDA row : row.side_effect = side_effect)

\* groupby('side_effect').sum('combined_rate').reset_index(), renamed: one
\* row per side-effect name, keys ascending, rows with a null key dropped
side_effects_rates(barkla_data) ==
    LET present == {barkla_data[i].side_effect : i \in DOMAIN barkla_data} \ {NULL}
        keys == SelectSeq(SideEffectNames, LAMBDA n : n \in present)
    IN  [k \in DOMAIN keys |->
            [side_effect |-> keys[k],
             total_rate |-> SumRates(rows_of_side_effect(barkla_data, keys[k]))]]

\* x goes after every element whose total_rate is >= its own
RECURSIVE InsertByTotal(_, _)
InsertByTotal(x, sorted) ==
    IF sorted = <<>> THEN <<x>>
    ELSE IF sorted[1].total_rate >= x.total_rate
         THEN <<sorted[1]>> \o InsertByTotal(x, Tail(sorted))
         ELSE <<x>> \o sorted

RECURSIVE StableSortByTotal(_)
StableSortByTotal(groups) ==
    IF groups = <<>> THEN <<>>
    ELSE InsertByTotal(groups[Len(groups)],
                       StableSortByTotal(SubSeq(groups, 1, Len(groups) - 1)))

\* sort_values(by='total_rate', ascending=False): descending; the default
\* sort kind is not stable, so the order among equal totals is the runtime's
sort_by_total_rate(groups) ==
    IF runtime.sort_ties = "kept"
    THEN StableSortByTotal(groups)
    ELSE StableSortByTotal(Reverse(groups))

\* the comment above head(10) says "Return the top 5 side effects"
head_five(groups) == SubSeq(groups, 1, Min(5, Len(groups)))

\* side_effects_rates.head(10)
head(groups) == SubSeq(groups, 1, Min(TopSideEffects, Len(groups)))

\* a plausible slip: the last row holding the largest combined_rate
idxmax_last(rows) ==
    CHOOSE i \in DOMAIN rows :
        /\ \A j \in DOMAIN rows : rows[j].combined_rate <= rows[i].combined_rate
        /\ \A j \in (i + 1)..Len(rows) : rows[j].combined_rate < rows[i].combined_rate

\* contributing_drug_data['combined_rate'].idxmax(): the first row holding
\* the largest combined_rate
idxmax(rows) ==
    CHOOSE i \in DOMAIN rows :
        /\ \A j \in DOMAIN rows : rows[j].combined_rate <= rows[i].combined_rate
        /\ \A j \in 1..(i - 1) : rows[j].combined_rate < rows[i].combined_rate

\* contributing_drug_data.loc[...idxmax(), 'drug_name']
most_likely_drug(barkla_data, side_effect) ==
    LET contributing_drug_data == rows_of_side_effect(barkla_data, side_effect)
    IN  contributing_drug_data[idxmax(contributing_drug_data)].drug_name

most_likely_side_effect(drug_list_in) ==
    LET drug_list == LowerAll(drug_list_in)
        barkla_data == most_likely_query(drug_list)
        top_side_effects == head(sort_by_total_rate(side_effects_rates(barkla_data)))
    IN  IF store_raises THEN HTTPException(500, StoreError)
        ELSE IF barkla_data = <<>> THEN Ok(<<>>)
        ELSE Ok([i \in DOMAIN top_side_effects |->
                    [side_effect |-> top_side_effects[i].side_effect,
                     total_rate |-> top_side_effects[i].total_rate,
                     most_likely_drug |->
                        most_likely_drug(barkla_data, top_side_effects[i].side_effect)]])

get_most_likely_side_effect ==
    /\ Handling("/most_likely_side_effects")
    /\ response' = most_likely_side_effect(request.drug_list)
    /\ UNCHANGED <<store, runtime, request, store_raises, db, served, threads, sessions>>

\* the stores of the most-likely-side-effects specification: up to MaxFreeRows
\* rows of any content, then one aspirin row for each of the first k side
\* effects, the i-th with rate 1 + (i * p) % 4
FreeRows ==
    [side_effect : {SideEffectNames[1], SideEffectNames[Len(SideEffectNames)], NULL},
     drug_name : {"aspirin", "warfarin"},
     combined_rate : {3}]
    \cup {[side_effect |-> SideEffectNames[1], drug_name |-> "warfarin",
            combined_rate |-> 1]}

EffectCounts == {0} \cup (TopSideEffects..MaxEffects)

RatePatterns == 0..2

OneRowPerEffect(k, p) ==
    [i \in 1..k |->
        [side_effect |-> SideEffectNames[i],
         drug_name |-> "aspirin",
         combined_rate |-> 1 + ((i * p) % 4)]]

MostLikelyRequests ==
    [endpoint : {"/most_likely_side_effects"},
     drug_list : {<<"Aspirin", "warfarin">>, <<"Warfarin">>}]

InitMostLikely ==
    /\ \E free \in SeqsUpTo(FreeRows, MaxFreeRows), k \in EffectCounts, p \in RatePatterns :
          store = [EmptyStore EXCEPT !.BarklaData = free \o OneRowPerEffect(k, p)]
    /\ \E ties \in {"kept", "reversed"} :
          runtime = [DefaultRuntime EXCEPT !.sort_ties = ties]
    /\ request = NoRequest
    /\ store_raises = FALSE
    /\ response = NoResponse
    /\ db = "none"
    /\ NoHistory

NextMostLikely ==
    \/ get_db(MostLikelyRequests)
    \/ get_most_likely_side_effect
    \/ db_close

SpecMostLikely == InitMostLikely /\ [][NextMostLikely]_vars

\* what the handler retrieved for the current /most_likely_side_effects request
MostLikelyRetrieved == most_likely_query(LowerAll(request.drug_list))

\* the side-effect names among the retrieved rows
RetrievedEffects ==
    {MostLikelyRetrieved[i].side_effect : i \in DOMAIN MostLikelyRetrieved} \ {NULL}

\* the sum of combined_rate over the retrieved rows of side effect e
TotalOf(e) ==
    SumRates(SelectSeq(MostLikelyRetrieved, LAMBDA row : row.side_effect = e))

MostLikelyReturned ==
    /\ Responded("/most_likely_side_effects")
    /\ response.status = 200

TopPerDrug == 5

\* drug names in ascending string order (upper case sorts before lower case)
DrugNames == <<"Aspirin", "Warfarin", "aspirin", "ibuprofen", "warfarin">>

DrugRank(name) == CHOOSE i \in DOMAIN DrugNames : DrugNames[i] = name

\* db.query(FAERSData).with_entities(...).filter(drug_name.in_(...)).all()
faers_query(drug_list) ==
    SelectSeq(store.FAERSData, LAMBDA row : SqlIn(row.drug_name, drug_list))

\* a goes before b: drug_name ascending, then rate descending
FaersBefore(a, b) ==
    \/ DrugRank(a.drug_name) < DrugRank(b.drug_name)
    \/ /\ a.drug_name = b.drug_name
       /\ a.rate > b.rate

\* x goes after every element that does not have to come after it
RECURSIVE InsertFaers(_, _)
InsertFaers(x, sorted) ==
    IF sorted = <<>> THEN <<x>>
    ELSE IF FaersBefore(x, sorted[1])
         THEN <<x>> \o sorted
         ELSE <<sorted[1]>> \o InsertFaers(x, Tail(sorted))

\* sort_values(by=['drug_name', 'rate'], ascending=[True, False]): a sort by
\* several columns is pandas' lexsort, which is stable
RECURSIVE sort_by_drug_and_rate(_)
sort_by_drug_and_rate(rows) ==
    IF rows = <<>> THEN <<>>
    ELSE InsertFaers(rows[Len(rows)],
                     sort_by_drug_and_rate(SubSeq(rows, 1, Len(rows) - 1)))

\* a plausible slip: head(5) of the whole frame, without the groupby
head_of_frame(rows) == SubSeq(rows, 1, Min(TopPerDrug, Len(rows)))

\* groupby('drug_name').head(5).reset_index(drop=True): the first 5 rows of
\* every drug, in the order of the frame
head_per_drug(rows) ==
    LET earlier(i) == Cardinality({j \in 1..(i - 1) : rows[j].drug_name = rows[i].drug_name})
        kept == {i \in DOMAIN rows : earlier(i) < TopPerDrug}
        nth(n) == CHOOSE i \in kept : Cardinality({j \in kept : j < i}) = n - 1
    IN  [n \in 1..Cardinality(kept) |-> rows[nth(n)]]

most_likely_side_effect_faers(drug_list_in) ==
    LET drug_list == LowerAll(drug_list_in)
        faers_data == faers_query(drug_list)
    IN  IF store_raises THEN HTTPException(500, StoreError)
        \* pd.DataFrame([]) has no columns, so naming six columns raises
        ELSE IF faers_data = <<>>
             THEN HTTPException(500, "Length mismatch: Expected axis has 0 elements, new values have 6 elements")
        ELSE Ok(head_per_drug(sort_by_drug_and_rate(faers_data)))

get_most_likely_side_effect_faers ==
    /\ Handling("/most_likely_side_effects_faers")
    /\ response' = most_likely_side_effect_faers(request.drug_list)
    /\ UNCHANGED <<store, runtime, request, store_raises, db, served, threads, sessions>>

FaersRow(drug_name, side_effect, rate) ==
    [drug_name |-> drug_name, side_effect |-> side_effect,
     drug_side_effect_occurrence_count |-> rate, case_count_with_drug |-> 4,
     rate |-> rate, wilson_interval |-> 1]

\* the stores of the FAERS specification: an aspirin row for each of the
\* first k side effects, the i-th with rate 1 + (i * p) % 4, then up to
\* MaxFaersFree rows of any content
FaersFreeRows ==
    {FaersRow(d, e, r) : d \in {"aspirin", "warfarin"}, e \in {"nausea", "vomiting"},
                         r \in {1, 3}}

FaersAspirinRows(k, p) ==
    [i \in 1..k |-> FaersRow("aspirin", SideEffectNames[i], 1 + ((i * p) % 4))]

FaersRequests ==
    [endpoint : {"/most_likely_side_effects_faers"},
     drug_list : {<<"Aspirin", "warfarin">>, <<"Warfarin">>}]

InitFaers ==
    /\ \E k \in 0..MaxFaersRows, p \in RatePatterns,
          free \in SeqsUpTo(FaersFreeRows, MaxFaersFree) :
          store = [EmptyStore EXCEPT !.FAERSData = FaersAspirinRows(k, p) \o free]
    /\ runtime = DefaultRuntime
    /\ request = NoRequest
    /\ store_raises = FALSE
    /\ response = NoResponse
    /\ db = "none"
    /\ NoHistory

NextFaers ==
    \/ get_db(FaersRequests)
    \/ get_most_likely_side_effect_faers
    \/ db_close

SpecFaers == InitFaers /\ [][NextFaers]_vars

\* what the handler retrieved for the current FAERS request
FaersRetrieved == faers_query(LowerAll(request.drug_list))

\* how many elements of rows are of drug d and have rate r
CountOf(rows, d, r) ==
    Cardinality({i \in DOMAIN rows : rows[i].drug_name = d /\ rows[i].rate = r})

CountOfDrug(rows, d) ==
    Cardinality({i \in DOMAIN rows : rows[i].drug_name = d})

FaersMatched ==
    /\ Responded("/most_likely_side_effects_faers")
    /\ ~store_raises
    /\ FaersRetrieved # <<>>

\* C4: with at least one matching row, /most_likely_side_effects_faers
\* returns at most 5 records per drug name, the drug groups in ascending
\* drug-name order, rate non-increasing within a group, and the records kept
\* for a drug are retrieved records of that drug with its highest rates.
C4_TopFivePerDrug ==
    FaersMatched =>
        /\ response.status = 200
        /\ LET body == response.body
               drugs == {FaersRetrieved[i].drug_name : i \in DOMAIN FaersRetrieved}
           IN  /\ \A i \in DOMAIN body : body[i] \in Range(FaersRetrieved)
               /\ \A i, j \in DOMAIN body :
                     i < j => /\ DrugRank(body[i].drug_name) <= DrugRank(body[j].drug_name)
                              /\ body[i].drug_name = body[j].drug_name
                                    => body[i].rate >= body[j].rate
               /\ \A d \in drugs :
                     /\ CountOfDrug(body, d) <= 5
                     /\ CountOfDrug(body, d) = Min(5, CountOfDrug(FaersRetrieved, d))
                     /\ \A i \in DOMAIN body :
                           body[i].drug_name = d =>
                              \A r \in {FaersRetrieved[j].rate : j \in DOMAIN FaersRetrieved} :
                                 /\ CountOf(body, d, r) <= CountOf(FaersRetrieved, d, r)
                                 /\ r > body[i].rate =>
                                       CountOf(body, d, r) = CountOf(FaersRetrieved, d, r)

\* two drugs were retrieved, one with more than 5 rows, and a row of that
\* drug with a low rate was dropped although it was retrieved early
C4_Witness ==
    /\ FaersMatched
    /\ response.status = 200
    /\ CountOfDrug(FaersRetrieved, "aspirin") > 5
    /\ CountOfDrug(response.body, "aspirin") = 5
    /\ CountOfDrug(response.body, "warfarin") > 0
    /\ \E i \in 1..5 : FaersRetrieved[i] \notin Range(response.body)
(***************************************************************************)
(* /alternative_search                                                     *)
(***************************************************************************)
\* a plausible slip: the filter event_concept_name != 'Sudden death' left out
alternative_subquery_death_kept(replaced_drug, indication_list) ==
    SelectSeq(store.SiderDrugIndications,
              LAMBDA row : /\ SqlIn(row.event_concept_name, indication_list)
                           /\ row.drug_concept_name # NULL
                           /\ row.drug_concept_name # replaced_drug)

\* the subquery: the (drug, indication) rows with the indication in the
\* list and not 'Sudden death', the drug not the replaced one and not null
alternative_subquery(replaced_drug, indication_list) ==
    SelectSeq(store.SiderDrugIndications,
              LAMBDA row : /\ SqlIn(row.event_concept_name, indication_list)
                           /\ row.event_concept_name # "Sudden death"
                           /\ row.drug_concept_name # NULL
                           /\ row.drug_concept_name # replaced_drug)

\* func.count(subquery.c.event_concept_name) of one group
count_of_group(rows, drug) ==
    Len(SelectSeq(rows, LAMBDA row : row.drug_concept_name = drug))

\* a plausible slip: the number of distinct required indications
having_distinct(count, indication_list) ==
    count = Cardinality(Range(indication_list))

\* .having(func.count(...) == len(indication_list))
having(count, indication_list) == count = Len(indication_list)

\* the group keys, each once, in the order of their first row
RECURSIVE group_keys(_)
group_keys(rows) ==
    IF rows = <<>> THEN <<>>
    ELSE LET rest == group_keys(SubSeq(rows, 1, Len(rows) - 1))
             drug == rows[Len(rows)].drug_concept_name
         IN  IF drug \in Range(rest) THEN rest ELSE Append(rest, drug)

alternative_drugs(replaced_drug, indication_list) ==
    LET rows == alternative_subquery(replaced_drug, indication_list)
        drugs == SelectSeq(group_keys(rows),
                           LAMBDA drug : having(count_of_group(rows, drug), indication_list))
    IN  IF store_raises THEN HTTPException(500, StoreError)
        ELSE Ok([i \in DOMAIN drugs |-> [drug_concept_name |-> drugs[i]]])

alternative_search ==
    /\ Handling("/alternative_search")
    /\ response' = alternative_drugs(request.replaced_drug, request.indication_list)
    /\ UNCHANGED <<store, runtime, request, store_raises, db, served, threads, sessions>>

IndicationRows ==
    [drug_concept_name : {"aspirin", "ibuprofen", "naproxen", NULL},
     event_concept_name : {"Pain", "Fever", "Sudden death"}]

\* indication_list is a required query parameter: it has at least one value
AlternativeRequests ==
    [endpoint : {"/alternative_search"},
     replaced_drug : {"aspirin"},
     indication_list : {<<"Pain">>, <<"Pain", "Fever">>, <<"Pain", "Pain">>,
                        <<"Pain", "Sudden death">>}]

InitAlternative ==
    /\ \E rows \in SeqsUpTo(IndicationRows, MaxIndicationRows) :
          store = [EmptyStore EXCEPT !.SiderDrugIndications = rows]
    /\ runtime = DefaultRuntime
    /\ request = NoRequest
    /\ store_raises = FALSE
    /\ response = NoResponse
    /\ db = "none"
    /\ NoHistory

NextAlternative ==
    \/ get_db(AlternativeRequests)
    \/ alternative_search
    \/ db_close

SpecAlternative == InitAlternative /\ [][NextAlternative]_vars

\* the number of indication rows of drug d whose indication is required and
\* is not "Sudden death"
MatchingRows(d) ==
    Cardinality({i \in DOMAIN store.SiderDrugIndications :
                    LET row == store.SiderDrugIndications[i]
                    IN  /\ row.drug_concept_name = d
                        /\ row.event_concept_name \in Range(request.indication_list)
                        /\ row.event_concept_name # "Sudden death"})

AlternativeAnswered ==
    /\ Responded("/alternative_search")
    /\ ~store_raises

NoDuplicateIndicationRows ==
    \A i, j \in DOMAIN store.SiderDrugIndications :
        i # j => store.SiderDrugIndications[i] # store.SiderDrugIndications[j]

\* C19: when indication_list contains "Sudden death" and the indication table
\* holds no duplicate (drug, indication) rows, /alternative_search returns
\* the empty list: the excluded indication can never be matched, so no
\* drug's count of matching rows reaches the length of the list.
C19_SuddenDeathGivesEmpty ==
    (/\ AlternativeAnswered
     /\ "Sudden death" \in Range(request.indication_list)
     /\ NoDuplicateIndicationRows) =>
        /\ response.status = 200
        /\ response.body = <<>>

\* a drug other than the replaced one holds both required indications,
\* "Sudden death" among them, each in one row, and is not returned
C19_Witness ==
    /\ AlternativeAnswered
    /\ "Sudden death" \in Range(request.indication_list)
    /\ NoDuplicateIndicationRows
    /\ \E d \in {"ibuprofen", "naproxen"} :
          \A e \in Range(request.indication_list) :
              \E i \in DOMAIN store.SiderDrugIndications :
                  /\ store.SiderDrugIndications[i].drug_concept_name = d
                  /\ store.SiderDrugIndications[i].event_concept_name = e
    /\ response.body = <<>>
(***************************************************************************)
(* /ancestor_side_effects                                                  *)
(***************************************************************************)
\* '/'.join(names): the names with a "/" between neighbours, as the sequence
\* of the string's pieces
RECURSIVE Join(_)
Join(names) ==
    IF names = <<>> THEN <<>>
    ELSE IF Len(names) = 1 THEN names
    ELSE <<names[1], "/">> \o Join(Tail(names))

\* a plausible slip: '/'.join(value), without the set
merged_label_with_duplicates(value) == Join(value)

\* '/'.join(list(set(value)))
merged_label(value) == Join(SetToList(Range(value)))

\* the first query: the mapping rows of the names in pt_list
side_effects_query(pt_list) ==
    SelectSeq(store.PTtoHLTMapping,
              LAMBDA row : SqlIn(row.descendant_concept_name, pt_list))

\* the second query: the rows of class 'HLGT' of the descendants found
ancestor_mappings_query(descendant_names) ==
    SelectSeq(store.PTtoHLTMapping,
              LAMBDA row : /\ SqlIn(row.descendant_concept_name, descendant_names)
                           /\ row.ancestor_concept_class_id = "HLGT")

ancestor_side_effects(pt_list) ==
    LET side_effects == side_effects_query(pt_list)
        descendant_names ==
            [i \in DOMAIN side_effects |-> side_effects[i].descendant_concept_name]
        ancestor_mappings == ancestor_mappings_query(descendant_names)
        keys == {ancestor_mappings[i].descendant_concept_name : i \in DOMAIN ancestor_mappings}
        \* result[key]: the ancestor names of the key's rows, in row order
        value(key) ==
            LET rows == SelectSeq(ancestor_mappings,
                                  LAMBDA row : row.descendant_concept_name = key)
            IN  [i \in DOMAIN rows |-> rows[i].ancestor_concept_name]
    IN  IF store_raises THEN HTTPException(500, StoreError)
        ELSE Ok([key \in keys |-> merged_label(value(key))])

get_ancestor_side_effects ==
    /\ Handling("/ancestor_side_effects")
    /\ response' = ancestor_side_effects(request.pt_list)
    /\ UNCHANGED <<store, runtime, request, store_raises, db, served, threads, sessions>>

AncestorNames == {"Headaches", "Neurological disorders"}

\* the mapping table holds no null names
MappingRows ==
    [descendant_concept_name : {"Headache", "Dizziness"},
     ancestor_concept_name : AncestorNames,
     ancestor_concept_class_id : {"HLGT", "HLT"}]

AncestorRequests ==
    [endpoint : {"/ancestor_side_effects"},
     pt_list : {<<"Headache", "Dizziness">>, <<"Dizziness", "Fatigue">>}]

\* the sequences that hold every element of S once
Orders(S) ==
    {p \in [1..Cardinality(S) -> S] : \A i, j \in DOMAIN p : i # j => p[i] # p[j]}

InitAncestor ==
    /\ \E rows \in SeqsUpTo(MappingRows, MaxMappingRows) :
          store = [EmptyStore EXCEPT !.PTtoHLTMapping = rows]
    /\ \E order \in Orders(AncestorNames) :
          runtime = [DefaultRuntime EXCEPT !.set_order = order]
    /\ request = NoRequest
    /\ store_raises = FALSE
    /\ response = NoResponse
    /\ db = "none"
    /\ NoHistory

NextAncestor ==
    \/ get_db(AncestorRequests)
    \/ get_ancestor_side_effects
    \/ db_close

SpecAncestor == InitAncestor /\ [][NextAncestor]_vars

\* the HLGT ancestor names the mapping table holds for descendant name n
HlgtAncestors(n) ==
    {store.PTtoHLTMapping[i].ancestor_concept_name :
        i \in {j \in DOMAIN store.PTtoHLTMapping :
                  /\ store.PTtoHLTMapping[j].descendant_concept_name = n
                  /\ store.PTtoHLTMapping[j].ancestor_concept_class_id = "HLGT"}}

AncestorAnswered ==
    /\ Responded("/ancestor_side_effects")
    /\ ~store_raises

\* C6: /ancestor_side_effects returns a mapping whose keys are exactly the
\* input names with at least one mapping row of ancestor class 'HLGT'; each
\* value is the '/'-join of the key's distinct HLGT ancestor names, each
\* once, in some order; a name without HLGT ancestor is absent.
C6_AncestorMapping ==
    AncestorAnswered =>
        /\ response.status = 200
        /\ DOMAIN response.body
              = {n \in Range(request.pt_list) : HlgtAncestors(n) # {}}
        /\ \A n \in DOMAIN response.body :
              \E p \in Orders(HlgtAncestors(n)) : response.body[n] = Join(p)

\* one name has two HLGT ancestors, and another input name has mapping rows
\* but none of class HLGT
C6_Witness ==
    /\ AncestorAnswered
    /\ response.status = 200
    /\ \E n \in DOMAIN response.body : Len(response.body[n]) = 3
    /\ \E n \in Range(request.pt_list) :
          /\ n \notin DOMAIN response.body
          /\ \E i \in DOMAIN store.PTtoHLTMapping :
                store.PTtoHLTMapping[i].descendant_concept_name = n
(***************************************************************************)
(* The clinical-records endpoints.                                         *)
(*                                                                         *)
(* A date of birth is the record [format_ok, day]: whether the stored text *)
(* has the form "%Y-%m-%d %H:%M:%S", and the day it names, counted from    *)
(* 1950-01-01.  patient_id is a decimal string, which the store compares   *)
(* with the integer column SUBJECT_ID by its value.                        *)
(***************************************************************************)
\* int(patient_id), for the identifiers the model uses
ParseInt(text) ==
    CASE text = "1" -> 1
      [] text = "2" -> 2
      [] text = "7" -> 7

\* `x if x else ""`: None and the empty string give ""
OrEmpty(x) == IF x = NULL \/ x = "" THEN "" ELSE x

\* an exception that leaves the handler: the framework answers 500
InternalServerError == HTTPException(500, "Internal Server Error")

\* except Exception as e: raise HTTPException(status_code=500, detail=str(e)),
\* where e is an HTTPException raised inside the try block; str(e) is made
\* of its status code and detail
caught_HTTPException(e) == HTTPException(500, <<e.status, e.detail>>)

\* the primary key of a table: no two rows share the key
UniqueKey(keys) ==
    \A i, j \in DOMAIN keys : i # j => keys[i] # keys[j]

\* a plausible slip: the filter on SUBJECT_ID left out
patient_query_unfiltered(patient_id) == store.Patient

\* db.query(Patient).filter(Patient.SUBJECT_ID == patient_id).first()
patient_query(patient_id) ==
    SelectSeq(store.Patient, LAMBDA row : row.SUBJECT_ID = ParseInt(patient_id))

\* (datetime.now() - dob).days // 365
age_of(dob, today) == (today - dob.day) \div 365

\* db.query(Prescription...).filter(Prescription.SUBJECT_ID == patient_id).all()
prescriptions_query(patient_id) ==
    SelectSeq(store.Prescription, LAMBDA row : row.SUBJECT_ID = ParseInt(patient_id))

PrescriptionResponse(p) ==
    [start_date |-> OrEmpty(p.STARTDATE), end_date |-> OrEmpty(p.ENDDATE),
     drug |-> OrEmpty(p.DRUG), drug_name_generic |-> OrEmpty(p.DRUG_NAME_GENERIC),
     formulary_drug_cd |-> OrEmpty(p.FORMULARY_DRUG_CD),
     dose_val_rx |-> OrEmpty(p.DOSE_VAL_RX), dose_unit_rx |-> OrEmpty(p.DOSE_UNIT_RX),
     route |-> OrEmpty(p.ROUTE)]

\* a plausible slip: the date of birth reported as the days lived so far
patient_portfolio_mimic_days_lived(patient_id, today) ==
    LET found == patient_query(patient_id)
        patient == found[1]
        prescriptions == prescriptions_query(patient_id)
    IN  IF store_raises THEN InternalServerError
        ELSE IF found = <<>>
             THEN HTTPException(404, <<"Patient with ID", patient_id, "not found">>)
        ELSE IF ~patient.DOB.format_ok THEN InternalServerError
        ELSE IF patient.GENDER = NULL THEN InternalServerError
        ELSE Ok([patient_id |-> ParseInt(patient_id),
                 patient_gender |-> patient.GENDER,
                 patient_age |-> age_of(patient.DOB, today),
                 patient_dob |-> today - patient.DOB.day,
                 prescriptions |->
                    [i \in DOMAIN prescriptions |-> PrescriptionResponse(prescriptions[i])]])

\* the handler has no try block: whatever is raised leaves it
patient_portfolio_mimic(patient_id, today) ==
    LET found == patient_query(patient_id)
        patient == found[1]
        prescriptions == prescriptions_query(patient_id)
    IN  IF store_raises THEN InternalServerError
        ELSE IF found = <<>>
             THEN HTTPException(404, <<"Patient with ID", patient_id, "not found">>)
        \* datetime.strptime raises on a text of another form
        ELSE IF ~patient.DOB.format_ok THEN InternalServerError
        \* PatientPortfolioResponse(patient_gender=None) fails validation
        ELSE IF patient.GENDER = NULL THEN InternalServerError
        ELSE Ok([patient_id |-> ParseInt(patient_id),
                 patient_gender |-> patient.GENDER,
                 patient_age |-> age_of(patient.DOB, today),
                 patient_dob |-> patient.DOB,
                 prescriptions |->
                    [i \in DOMAIN prescriptions |-> PrescriptionResponse(prescriptions[i])]])

get_patient_portfolio_mimic ==
    /\ Handling("/patient_portfolio_mimic")
    /\ \E today \in {27899, 28105} :
          response' = patient_portfolio_mimic(request.patient_id, today)
    /\ UNCHANGED <<store, runtime, request, store_raises, db, served, threads, sessions>>

PatientRows ==
    [SUBJECT_ID : {1, 2},
     GENDER : {"F", NULL},
     DOB : {[format_ok |-> TRUE, day |-> 0], [format_ok |-> TRUE, day |-> 366],
            [format_ok |-> FALSE, day |-> 0]}]

PatientTables ==
    {rows \in SeqsUpTo(PatientRows, MaxPatientRows) :
        UniqueKey([i \in DOMAIN rows |-> rows[i].SUBJECT_ID])}

PrescriptionRows ==
    [SUBJECT_ID : {1}, STARTDATE : {"2101-10-20 00:00:00"}, ENDDATE : {NULL},
     DRUG : {"Aspirin", NULL}, DRUG_NAME_GENERIC : {"Aspirin", ""},
     FORMULARY_DRUG_CD : {"ASA81"}, DOSE_VAL_RX : {"81"}, DOSE_UNIT_RX : {"mg"},
     ROUTE : {"PO"}]

PatientIds == {"1", "7"}

PortfolioRequests ==
    [endpoint : {"/patient_portfolio_mimic"}, patient_id : PatientIds]

InitPortfolio ==
    /\ \E patients \in PatientTables,
          prescriptions \in SeqsUpTo(PrescriptionRows, MaxPrescriptionRows) :
          store = [EmptyStore EXCEPT !.Patient = patients, !.Prescription = prescriptions]
    /\ runtime = DefaultRuntime
    /\ request = NoRequest
    /\ store_raises = FALSE
    /\ response = NoResponse
    /\ db = "none"
    /\ NoHistory

NextPortfolio ==
    \/ get_db(PortfolioRequests)
    \/ get_patient_portfolio_mimic
    \/ db_close

SpecPortfolio == InitPortfolio /\ [][NextPortfolio]_vars

\* the patient rows with the requested patient_id
RequestedPatient ==
    SelectSeq(store.Patient, LAMBDA row : row.SUBJECT_ID = ParseInt(request.patient_id))

PortfolioAnswered ==
    /\ Responded("/patient_portfolio_mimic")
    /\ ~store_raises

diagnoses_query(patient_id) ==
    SelectSeq(store.Diagnosis, LAMBDA row : row.SUBJECT_ID = ParseInt(patient_id))

\* db.query(D_Icd).filter(D_Icd.ICD9_CODE.in_(icd9_codes)).all()
titles_query(icd9_codes) ==
    SelectSeq(store.D_Icd, LAMBDA row : SqlIn(row.ICD9_CODE, icd9_codes))

\* icd9_to_hadm_ids[code]: the truthy HADM_IDs of the code's rows, each
\* once, in row order
RECURSIVE hadm_ids_of(_, _)
hadm_ids_of(diagnoses, code) ==
    IF diagnoses = <<>> THEN <<>>
    ELSE LET rest == hadm_ids_of(SubSeq(diagnoses, 1, Len(diagnoses) - 1), code)
             d == diagnoses[Len(diagnoses)]
         IN  IF d.ICD9_CODE = code /\ d.HADM_ID # 0 /\ d.HADM_ID \notin Range(rest)
             THEN Append(rest, d.HADM_ID)
             ELSE rest

patient_diagnoses_mimic(patient_id) ==
    LET found == patient_query(patient_id)
        diagnoses == diagnoses_query(patient_id)
        icd9_codes == [i \in DOMAIN diagnoses |-> diagnoses[i].ICD9_CODE]
        diagnoses_with_titles == titles_query(icd9_codes)
        titled == {diagnoses_with_titles[i].ICD9_CODE : i \in DOMAIN diagnoses_with_titles}
        titles(code) ==
            CHOOSE d \in Range(diagnoses_with_titles) : d.ICD9_CODE = code
        codes == SetToList(Range(icd9_codes))
    IN  IF store_raises THEN HTTPException(500, StoreError)
        \* raised inside the try block, so the except clause below catches it
        ELSE IF found = <<>>
             THEN caught_HTTPException(
                     HTTPException(404, <<"Patient with ID", patient_id, "not found">>))
        ELSE Ok([i \in DOMAIN codes |->
                    [icd9_code |-> codes[i],
                     short_title |-> IF codes[i] \in titled
                                     THEN titles(codes[i]).SHORT_TITLE ELSE "Unknown",
                     long_title |-> IF codes[i] \in titled
                                    THEN titles(codes[i]).LONG_TITLE ELSE "Unknown",
                     hadm_ids |-> hadm_ids_of(diagnoses, codes[i])]])

get_patient_diagnoses_mimic ==
    /\ Handling("/patient_diagnoses_mimic")
    /\ response' = patient_diagnoses_mimic(request.patient_id)
    /\ UNCHANGED <<store, runtime, request, store_raises, db, served, threads, sessions>>

Icd9Codes == {"4019", "25000"}

\* HADM_ID 0 stands for a null HADM_ID: both are falsy
DiagnosisRows ==
    [SUBJECT_ID : {1}, HADM_ID : {0, 100, 101}, ICD9_CODE : Icd9Codes]

TitleTables ==
    {<<>>,
     <<[ICD9_CODE |-> "4019", SHORT_TITLE |-> "Hypertension NOS",
        LONG_TITLE |-> "Unspecified essential hypertension"]>>}

DiagnosesRequests ==
    [endpoint : {"/patient_diagnoses_mimic"}, patient_id : PatientIds]

InitDiagnoses ==
    /\ \E patients \in {<<>>, <<[SUBJECT_ID |-> 1, GENDER |-> "F",
                                 DOB |-> [format_ok |-> TRUE, day |-> 0]]>>},
          diagnoses \in SeqsUpTo(DiagnosisRows, MaxDiagnosisRows),
          titles \in TitleTables :
          store = [EmptyStore EXCEPT !.Patient = patients, !.Diagnosis = diagnoses,
                                     !.D_Icd = titles]
    /\ \E order \in Orders(Icd9Codes) :
          runtime = [DefaultRuntime EXCEPT !.set_order = order]
    /\ request = NoRequest
    /\ store_raises = FALSE
    /\ response = NoResponse
    /\ db = "none"
    /\ NoHistory

NextDiagnoses ==
    \/ get_db(DiagnosesRequests)
    \/ get_patient_diagnoses_mimic
    \/ db_close

SpecDiagnoses == InitDiagnoses /\ [][NextDiagnoses]_vars

\* C8: /patient_diagnoses_mimic answers 404, not 500 or any other status,
\* whenever no patient row has the requested patient_id.
C8_DiagnosesNotFound ==
    (/\ Responded("/patient_diagnoses_mimic")
     /\ ~store_raises
     /\ RequestedPatient = <<>>)
        => response.status = 404

(***************************************************************************)
(* /admission_details                                                      *)
(***************************************************************************)
\* db.query(Admission).filter(Admission.HADM_ID == hadm_id).first()
admission_query(hadm_id) ==
    SelectSeq(store.Admission, LAMBDA row : row.HADM_ID = hadm_id)

admission_details(hadm_id) ==
    LET found == admission_query(hadm_id)
        admission == found[1]
    IN  IF store_raises THEN HTTPException(500, StoreError)
        \* raised inside the try block, so the except clause below catches it
        ELSE IF found = <<>>
             THEN caught_HTTPException(
                     HTTPException(404, <<"Admission with ID", hadm_id, "not found">>))
        ELSE Ok([hadm_id |-> admission.HADM_ID,
                 admission_time |-> OrEmpty(admission.ADMITTIME),
                 discharge_time |-> OrEmpty(admission.DISCHTIME),
                 diagnosis |-> OrEmpty(admission.DIAGNOSIS)])

get_admission_details ==
    /\ Handling("/admission_details")
    /\ response' = admission_details(request.hadm_id)
    /\ UNCHANGED <<store, runtime, request, store_raises, db, served, threads, sessions>>

AdmissionRows ==
    [HADM_ID : {100, 101},
     ADMITTIME : {"2101-10-20 19:08:00", NULL},
     DISCHTIME : {"2101-10-26 20:43:00", NULL},
     DIAGNOSIS : {"SEPSIS", NULL}]

AdmissionTables ==
    {rows \in SeqsUpTo(AdmissionRows, MaxAdmissionRows) :
        UniqueKey([i \in DOMAIN rows |-> rows[i].HADM_ID])}

AdmissionRequests ==
    [endpoint : {"/admission_details"}, hadm_id : {100, 102}]

InitAdmission ==
    /\ \E rows \in AdmissionTables : store = [EmptyStore EXCEPT !.Admission = rows]
    /\ runtime = DefaultRuntime
    /\ request = NoRequest
    /\ store_raises = FALSE
    /\ response = NoResponse
    /\ db = "none"
    /\ NoHistory

NextAdmission ==
    \/ get_db(AdmissionRequests)
    \/ get_admission_details
    \/ db_close

SpecAdmission == InitAdmission /\ [][NextAdmission]_vars

\* C9: /admission_details answers 404, not 500 or any other status, whenever
\* no admission row has the requested hadm_id.
C9_AdmissionNotFound ==
    (/\ Responded("/admission_details")
     /\ ~store_raises
     /\ admission_query(request.hadm_id) = <<>>)
        => response.status = 404
(***************************************************************************)
(* Empty results of the ranking and search operations.                     *)
(***************************************************************************)
\* the response is the empty list
EmptyList == response.status = 200 /\ response.body = <<>>

\* the response is the empty mapping
EmptyMapping == response.status = 200 /\ DOMAIN response.body = {}

CulpritEmptyResult ==
    (/\ Responded("/culprit_drug")
     /\ culprit_query(Lower(request.side_effect), LowerAll(request.drug_list)) = <<>>)
        => EmptyList

MostLikelyEmptyResult ==
    (Responded("/most_likely_side_effects") /\ MostLikelyRetrieved = <<>>)
        => EmptyList

FaersEmptyResult ==
    (Responded("/most_likely_side_effects_faers") /\ FaersRetrieved = <<>>)
        => EmptyList

AlternativeEmptyResult ==
    (/\ Responded("/alternative_search")
     /\ alternative_subquery(request.replaced_drug, request.indication_list) = <<>>)
        => EmptyList

AncestorEmptyResult ==
    (/\ Responded("/ancestor_side_effects")
     /\ side_effects_query(request.pt_list) = <<>>)
        => EmptyMapping

\* C10: each ranking/search operation (/culprit_drug,
\* /most_likely_side_effects, /most_likely_side_effects_faers,
\* /alternative_search, /ancestor_side_effects) answers a request that no
\* row of the store matches with an empty list or an empty mapping, never
\* with an error status.
C10_EmptyResultIsNoError ==
    ~store_raises =>
        /\ CulpritEmptyResult
        /\ MostLikelyEmptyResult
        /\ FaersEmptyResult
        /\ AlternativeEmptyResult
        /\ AncestorEmptyResult

\* the retrieved rows of the current /culprit_drug request, before scoring
CulpritQueried ==
    culprit_query(Lower(request.side_effect), LowerAll(request.drug_list))

\* C15: when rows are retrieved and the sum of their combined_rate is zero,
\* /culprit_drug handles the zero total: it answers with the ranked list of
\* the retrieved rows, not with an error.
C15_ZeroTotalGuarded ==
    (/\ Responded("/culprit_drug")
     /\ ~store_raises
     /\ CulpritQueried # <<>>
     /\ SumRates(CulpritQueried) = 0) =>
        /\ response.status = 200
        /\ Len(response.body) = Len(CulpritQueried)

\* C16: in every entry /most_likely_side_effects returns, most_likely_drug
\* is the drug of the retrieved row of that side effect with the largest
\* combined_rate; among several rows holding that largest rate it is the
\* drug of the earliest of them in retrieval order.
C16_EarliestLargestRate ==
    MostLikelyReturned =>
        \A n \in DOMAIN response.body :
            LET entry == response.body[n]
                mine == {i \in DOMAIN MostLikelyRetrieved :
                            MostLikelyRetrieved[i].side_effect = entry.side_effect}
            IN  \E i \in mine :
                    /\ MostLikelyRetrieved[i].drug_name = entry.most_likely_drug
                    /\ \A j \in mine : MostLikelyRetrieved[j].combined_rate
                                          <= MostLikelyRetrieved[i].combined_rate
                    /\ \A j \in mine : j < i =>
                          MostLikelyRetrieved[j].combined_rate
                             < MostLikelyRetrieved[i].combined_rate

\* two rows of one side effect, of different drugs, hold its largest rate,
\* and the entry names the drug of the earlier row
C16_Witness ==
    /\ MostLikelyReturned
    /\ \E n \in DOMAIN response.body, i, j \in DOMAIN MostLikelyRetrieved :
          /\ i < j
          /\ MostLikelyRetrieved[i].side_effect = response.body[n].side_effect
          /\ MostLikelyRetrieved[j].side_effect = response.body[n].side_effect
          /\ MostLikelyRetrieved[i].combined_rate = MostLikelyRetrieved[j].combined_rate
          /\ MostLikelyRetrieved[i].drug_name # MostLikelyRetrieved[j].drug_name
          /\ \A k \in DOMAIN MostLikelyRetrieved :
                MostLikelyRetrieved[k].side_effect = response.body[n].side_effect
                   => MostLikelyRetrieved[k].combined_rate
                         <= MostLikelyRetrieved[i].combined_rate
          /\ response.body[n].most_likely_drug = MostLikelyRetrieved[i].drug_name
(***************************************************************************)
(* /interactions and /alternative_interactions                             *)
(***************************************************************************)
\* db.query(AllDrugDrugInteractions).filter(drug_a.in_(...), drug_b.in_(...)).all()
interactions_query(drug_list) ==
    SelectSeq(store.AllDrugDrugInteractions,
              LAMBDA row : /\ SqlIn(row.drug_a_concept_name, drug_list)
                           /\ SqlIn(row.drug_b_concept_name, drug_list))

interactions(drug_list) ==
    IF store_raises THEN HTTPException(500, StoreError)
    ELSE Ok(interactions_query(drug_list))

get_interactions ==
    /\ Handling("/interactions")
    /\ response' = interactions(request.drug_list)
    /\ UNCHANGED <<store, runtime, request, store_raises, db, served, threads, sessions>>

\* a plausible slip: the two conditions that exclude replaced_drug left out
alternative_interactions_filter_keeps_replaced(row, replaced_drug, replacement_drug, drug_list) ==
    \/ /\ row.drug_a_concept_name = replacement_drug
       /\ SqlIn(row.drug_b_concept_name, drug_list)
    \/ /\ row.drug_b_concept_name = replacement_drug
       /\ SqlIn(row.drug_a_concept_name, drug_list)

\* (drug_a != replaced_drug) & (drug_b != replaced_drug) &
\* (((drug_a == replacement_drug) & drug_b.in_(drug_list)) |
\*  ((drug_b == replacement_drug) & drug_a.in_(drug_list)))
alternative_interactions_filter(row, replaced_drug, replacement_drug, drug_list) ==
    /\ row.drug_a_concept_name # replaced_drug
    /\ row.drug_b_concept_name # replaced_drug
    /\ \/ /\ row.drug_a_concept_name = replacement_drug
          /\ SqlIn(row.drug_b_concept_name, drug_list)
       \/ /\ row.drug_b_concept_name = replacement_drug
          /\ SqlIn(row.drug_a_concept_name, drug_list)

alternative_interactions_response(replaced_drug, replacement_drug, drug_list) ==
    IF store_raises THEN HTTPException(500, StoreError)
    ELSE Ok(SelectSeq(store.AllDrugDrugInteractions,
                      LAMBDA row : alternative_interactions_filter(
                                      row, replaced_drug, replacement_drug, drug_list)))

alternative_interactions ==
    /\ Handling("/alternative_interactions")
    /\ response' = alternative_interactions_response(
                      request.replaced_drug, request.replacement_drug, request.drug_list)
    /\ UNCHANGED <<store, runtime, request, store_raises, db, served, threads, sessions>>

\* the interaction table holds names of drugs, none null; the columns the
\* handlers do not read are the same in every row
InteractionRows ==
    [drug_a_concept_name : {"aspirin", "ibuprofen", "warfarin"},
     drug_b_concept_name : {"aspirin", "ibuprofen", "warfarin"},
     event_concept_name : {"Haemorrhage"},
     severity_code : {2}]

InteractionsRequests ==
    [endpoint : {"/interactions"}, drug_list : {<<"aspirin", "warfarin">>}]

AlternativeInteractionsRequests ==
    [endpoint : {"/alternative_interactions"},
     replaced_drug : {"aspirin"},
     replacement_drug : {"ibuprofen"},
     drug_list : {<<"warfarin">>, <<"warfarin", "aspirin">>}]

InitInteractions ==
    /\ \E rows \in SeqsUpTo(InteractionRows, MaxInteractionRows) :
          store = [EmptyStore EXCEPT !.AllDrugDrugInteractions = rows]
    /\ runtime = DefaultRuntime
    /\ request = NoRequest
    /\ store_raises = FALSE
    /\ response = NoResponse
    /\ db = "none"
    /\ NoHistory

NextInteractions ==
    \/ get_db(InteractionsRequests \cup AlternativeInteractionsRequests)
    \/ get_interactions
    \/ alternative_interactions
    \/ db_close

SpecInteractions == InitInteractions /\ [][NextInteractions]_vars

\* the indexes of the interaction rows C13 asks for
WantedInteractions ==
    {i \in DOMAIN store.AllDrugDrugInteractions :
        LET row == store.AllDrugDrugInteractions[i]
            a == row.drug_a_concept_name
            b == row.drug_b_concept_name
        IN  /\ a # request.replaced_drug
            /\ b # request.replaced_drug
            /\ \/ a = request.replacement_drug /\ b \in Range(request.drug_list)
               \/ b = request.replacement_drug /\ a \in Range(request.drug_list)}

AlternativeInteractionsAnswered ==
    /\ Responded("/alternative_interactions")
    /\ ~store_raises

\* C13: /alternative_interactions returns exactly the interaction records in
\* which neither drug is the replaced drug and either drug_a is the
\* replacement and drug_b is in drug_list, or drug_b is the replacement and
\* drug_a is in drug_list: no other record, and none of these omitted.
C13_AlternativeInteractions ==
    AlternativeInteractionsAnswered =>
        /\ response.status = 200
        /\ Len(response.body) = Cardinality(WantedInteractions)
        /\ \E pick \in [DOMAIN response.body -> WantedInteractions] :
              /\ \A n, m \in DOMAIN response.body : n < m => pick[n] < pick[m]
              /\ \A n \in DOMAIN response.body :
                    response.body[n] = store.AllDrugDrugInteractions[pick[n]]

\* drug_list names the replaced drug: the record pairing the replacement
\* with it is left out, the records in either orientation with another
\* drug of the list are returned
C13_Witness ==
    /\ AlternativeInteractionsAnswered
    /\ response.status = 200
    /\ Len(response.body) = 2
    /\ response.body[1].drug_a_concept_name # response.body[2].drug_a_concept_name
    /\ \E i \in DOMAIN store.AllDrugDrugInteractions :
          /\ store.AllDrugDrugInteractions[i].drug_a_concept_name = request.replacement_drug
          /\ store.AllDrugDrugInteractions[i].drug_b_concept_name = request.replaced_drug
          /\ request.replaced_drug \in Range(request.drug_list)

(***************************************************************************)
(* /side_effects_names                                                     *)
(***************************************************************************)
\* db.query(SingleDrugPositiveControls.event_concept_name).distinct().all(),
\* made a set, None discarded
event_names ==
    {store.SingleDrugPositiveControls[i].event_concept_name :
        i \in DOMAIN store.SingleDrugPositiveControls} \ {NULL}

\* Column.in_(a set), where the release takes sequences only
ArgumentError == "IN expression list, SELECT construct, or bound parameter object expected"

\* hlgt = get_ancestor_side_effects(side_effects, db); return list(set(hlgt)):
\* hlgt is the dictionary the ancestor handler returns, and a set made of a
\* dictionary holds its keys
side_effect_names ==
    LET hlgt == ancestor_side_effects(SetToList(event_names))
    IN  IF store_raises THEN HTTPException(500, StoreError)
        ELSE IF ~runtime.in_takes_set
             THEN caught_HTTPException(HTTPException(500, ArgumentError))
        ELSE Ok(SetToList(DOMAIN hlgt.body))

get_side_effect_names ==
    /\ Handling("/side_effects_names")
    /\ response' = side_effect_names
    /\ UNCHANGED <<store, runtime, request, store_raises, db, served, threads, sessions>>

ControlRows ==
    [drug_concept_name : {"aspirin"},
     event_concept_name : {"Headache", "Dizziness", NULL}]

SideEffectNamesRequests == [endpoint : {"/side_effects_names"}]

InitSideEffectNames ==
    /\ \E controls \in SeqsUpTo(ControlRows, MaxControlRows),
          rows \in SeqsUpTo(MappingRows, MaxNameMappingRows) :
          store = [EmptyStore EXCEPT !.SingleDrugPositiveControls = controls,
                                     !.PTtoHLTMapping = rows]
    /\ \E order \in Orders(AncestorNames), takes \in BOOLEAN :
          runtime = [DefaultRuntime EXCEPT
                        !.set_order = order \o <<"Headache", "Dizziness">>,
                        !.in_takes_set = takes]
    /\ request = NoRequest
    /\ store_raises = FALSE
    /\ response = NoResponse
    /\ db = "none"
    /\ NoHistory

NextSideEffectNames ==
    \/ get_db(SideEffectNamesRequests)
    \/ get_side_effect_names
    \/ db_close

SpecSideEffectNames == InitSideEffectNames /\ [][NextSideEffectNames]_vars

\* the labels a side effect name resolves to: the '/'-joins of its distinct
\* HLGT ancestor names, in any order
LabelsOf(n) == {Join(p) : p \in Orders(HlgtAncestors(n))}

\* C14: /side_effects_names returns the list, without duplicates, of the
\* ancestor labels that the distinct non-null event names of the single-drug
\* table resolve to: labels, not descendant event names.
C14_NamesAreAncestorLabels ==
    (Responded("/side_effects_names") /\ ~store_raises) =>
        /\ response.status = 200
        /\ \A i, j \in DOMAIN response.body :
              i # j => response.body[i] # response.body[j]
        /\ \A i \in DOMAIN response.body :
              \E n \in event_names : response.body[i] \in LabelsOf(n)
        /\ \A n \in event_names :
              HlgtAncestors(n) # {} =>
                 \E i \in DOMAIN response.body : response.body[i] \in LabelsOf(n)

(***************************************************************************)
(* A service with several endpoints: /drug_names, /ancestor_side_effects   *)
(* and /patient_portfolio_mimic, over one store.                           *)
(***************************************************************************)
\* set(drug_a_names + drug_b_names), None discarded, as a list
drug_names ==
    LET rows == store.AllDrugDrugInteractions
        all_drug_names ==
            ({rows[i].drug_a_concept_name : i \in DOMAIN rows}
                \cup {rows[i].drug_b_concept_name : i \in DOMAIN rows}) \ {NULL}
    IN  IF store_raises THEN HTTPException(500, StoreError)
        ELSE Ok(SetToList(all_drug_names))

get_drug_names ==
    /\ Handling("/drug_names")
    /\ response' = drug_names
    /\ UNCHANGED <<store, runtime, request, store_raises, db, served, threads, sessions>>

\* finally: db.close(), and the completed exchange joins the history when
\* the store answered the request
db_close_recorded ==
    /\ db = "open"
    /\ response # NoResponse
    /\ db' = "closed"
    /\ served' = IF store_raises THEN served
                 ELSE served \cup {[request |-> request, response |-> response]}
    /\ UNCHANGED <<store, runtime, request, store_raises, response, threads, sessions>>

ServicePatientTables ==
    {<<>>,
     <<[SUBJECT_ID |-> 1, GENDER |-> "F", DOB |-> [format_ok |-> TRUE, day |-> 0]]>>,
     <<[SUBJECT_ID |-> 1, GENDER |-> "F", DOB |-> [format_ok |-> FALSE, day |-> 0]]>>}

ServiceMappingRows ==
    [descendant_concept_name : {"Headache"},
     ancestor_concept_name : AncestorNames,
     ancestor_concept_class_id : {"HLGT"}]

ServiceInteractionTables ==
    {<<>>,
     <<[drug_a_concept_name |-> "aspirin", drug_b_concept_name |-> "warfarin",
        event_concept_name |-> "Haemorrhage", severity_code |-> 2]>>,
     <<[drug_a_concept_name |-> "warfarin", drug_b_concept_name |-> "aspirin",
        event_concept_name |-> "Haemorrhage", severity_code |-> 2]>>}

ServiceRequests ==
    [endpoint : {"/drug_names"}]
    \cup [endpoint : {"/ancestor_side_effects"}, pt_list : {<<"Headache", "Dizziness">>}]
    \cup PortfolioRequests

InitService ==
    /\ \E patients \in ServicePatientTables,
          rows \in SeqsUpTo(ServiceMappingRows, MaxServiceRows),
          ddi \in ServiceInteractionTables :
          store = [EmptyStore EXCEPT !.Patient = patients,
                                     !.PTtoHLTMapping = rows,
                                     !.AllDrugDrugInteractions = ddi]
    /\ \E order \in Orders(AncestorNames), drugs \in Orders({"aspirin", "warfarin"}) :
          runtime = [DefaultRuntime EXCEPT !.set_order = order \o drugs]
    /\ request = NoRequest
    /\ store_raises = FALSE
    /\ response = NoResponse
    /\ db = "none"
    /\ NoHistory

Handlers ==
    \/ get_drug_names
    \/ get_ancestor_side_effects
    \/ get_patient_portfolio_mimic

\* requests served one after another, each completed exchange recorded
NextRepeated ==
    \/ get_db(ServiceRequests)
    \/ get_drug_names
    \/ get_ancestor_side_effects
    \/ get_patient_portfolio_mimic
    \/ db_close_recorded

SpecRepeated == InitService /\ [][NextRepeated]_vars

WithoutAge(exchange) ==
    IF /\ exchange.request.endpoint = "/patient_portfolio_mimic"
       /\ exchange.response.status = 200
    THEN [exchange.response EXCEPT !.body.patient_age = 0]
    ELSE exchange.response

NextSession ==
    \/ get_db(ServiceRequests)
    \/ get_drug_names
    \/ get_ancestor_side_effects
    \/ get_patient_portfolio_mimic
    \/ db_close

SpecSession ==
    /\ InitService
    /\ [][NextSession]_vars
    /\ WF_vars(Handlers)
    /\ WF_vars(db_close)

\* C17: every request gets one session of its own, opened when the request
\* begins; on every exit path of the handler (return, 404, 500, an exception
\* that leaves the handler) the session is eventually closed, once; it is
\* not closed before the handler has finished, and no request begins or
\* ends while a session is open.
C17_SessionScoped ==
    /\ [][request' # request \/ store_raises' # store_raises \/ response' = NoResponse
             => db # "open" /\ db' = "open"]_vars
    /\ [][db = "open" /\ db' # "open"
             => response # NoResponse /\ db' = "closed" /\ response' = response]_vars
    /\ [][db = "closed" /\ db' # "closed" => db' = "open" /\ response' = NoResponse]_vars
    /\ (db = "open") ~> (db = "closed")

\* the session of a request whose exception left the handler was closed
C17_Witness ==
    /\ db = "closed"
    /\ request.endpoint = "/patient_portfolio_mimic"
    /\ response = InternalServerError

(***************************************************************************)
(* /culprit_drug served by worker threads at the same time.                *)
(*                                                                         *)
(* The framework runs a handler declared with def in a thread pool, so the *)
(* statements of two requests interleave.  A step of a worker is one       *)
(* statement that touches a session or the objects it holds; what a        *)
(* statement computes from the worker's local variables alone goes with    *)
(* it.  A row fetched by db.query(BarklaData) is an object of the querying *)
(* session, found by its primary key (its place in the table); the         *)
(* attribute score the handler sets lives on that object.                  *)
(***************************************************************************)
Workers == {"w1", "w2"}

IdleThread ==
    [pc |-> "idle", request |-> NoRequest, session |-> "none",
     barkla_data |-> <<>>, total |-> 0, row |-> 1, ranked_drugs |-> <<>>,
     response |-> NoResponse]

\* a session object: whether it was created and is open, and the objects
\* of the rows it fetched, by primary key
NoSession == [state |-> "none", objects |-> <<>>]

\* an object as the query leaves it: no attribute score yet
Fetched == [has_score |-> FALSE, score |-> Frac(0, 1)]

\* a plausible slip: one session made when the module is loaded and handed
\* to every request
SessionLocal_at_import(w) == CHOOSE v \in Workers : TRUE

\* db = SessionLocal(): the session made by worker w's call
SessionLocal(w) == w

\* the primary keys of the rows db.query(BarklaData).filter(...).all() returns
culprit_query_keys(side_effect, drug_list) ==
    SelectSeq([i \in DOMAIN store.BarklaData |-> i],
              LAMBDA i : /\ store.BarklaData[i].side_effect # NULL
                         /\ store.BarklaData[i].side_effect = side_effect
                         /\ SqlIn(store.BarklaData[i].drug_name, drug_list))

\* db = SessionLocal(); yield db
worker_get_db(w) ==
    /\ threads[w].pc = "idle"
    /\ \E r \in CulpritRequests :
          LET s == SessionLocal(w)
          IN  /\ threads' = [threads EXCEPT ![w].pc = "query",
                                            ![w].request = r,
                                            ![w].session = s]
              /\ sessions' = IF sessions[s].state = "none"
                             THEN [sessions EXCEPT ![s].state = "open"]
                             ELSE sessions
    /\ UNCHANGED <<store, runtime, request, store_raises, response, db, served>>

\* barkla_data = db.query(BarklaData).filter(...).all(); if not barkla_data:
\* return []; total_combined_rate = sum(...)
worker_query(w) ==
    /\ threads[w].pc = "query"
    /\ LET t == threads[w]
           keys == culprit_query_keys(Lower(t.request.side_effect),
                                      LowerAll(t.request.drug_list))
           held == sessions[t.session].objects
           rows == [k \in DOMAIN keys |-> store.BarklaData[keys[k]]]
       IN  /\ sessions' =
                 [sessions EXCEPT ![t.session].objects =
                     [i \in DOMAIN held \cup Range(keys) |->
                         IF i \in DOMAIN held THEN held[i] ELSE Fetched]]
           /\ threads' =
                 IF keys = <<>>
                 THEN [threads EXCEPT ![w].pc = "close", ![w].response = Ok(<<>>)]
                 ELSE [threads EXCEPT ![w].pc = "score",
                                      ![w].barkla_data = keys,
                                      ![w].total = total_combined_rate(rows),
                                      ![w].row = 1]
    /\ UNCHANGED <<store, runtime, request, store_raises, response, db, served>>

\* one turn of: for row in barkla_data: row.score = row.combined_rate / total
worker_score(w) ==
    /\ threads[w].pc = "score"
    /\ LET t == threads[w]
           key == t.barkla_data[t.row]
       IN  IF t.total = 0
           THEN /\ threads' = [threads EXCEPT
                                  ![w].pc = "close",
                                  ![w].response =
                                      HTTPException(500, "float division by zero")]
                /\ UNCHANGED sessions
           ELSE /\ sessions' =
                      [sessions EXCEPT ![t.session].objects[key] =
                          [has_score |-> TRUE,
                           score |-> Frac(store.BarklaData[key].combined_rate, t.total)]]
                /\ threads' =
                      [threads EXCEPT ![w].row = t.row + 1,
                                      ![w].pc = IF t.row = Len(t.barkla_data)
                                                THEN "sorted" ELSE "score"]
    /\ UNCHANGED <<store, runtime, request, store_raises, response, db, served>>

\* the rows of keys as the session's objects show them now
rows_as_held(session, keys) ==
    [k \in DOMAIN keys |->
        [key |-> keys[k],
         drug_name |-> store.BarklaData[keys[k]].drug_name,
         combined_rate |-> store.BarklaData[keys[k]].combined_rate,
         score |-> sessions[session].objects[keys[k]].score]]

\* ranked_drugs = sorted(barkla_data, key=lambda x: x.score, reverse=True)
worker_sorted(w) ==
    /\ threads[w].pc = "sorted"
    /\ LET t == threads[w]
           ranked == sorted_by_score(rows_as_held(t.session, t.barkla_data))
       IN  threads' = [threads EXCEPT
                          ![w].pc = "results",
                          ![w].ranked_drugs = [k \in DOMAIN ranked |-> ranked[k].key]]
    /\ UNCHANGED <<store, runtime, request, store_raises, response, db, served, sessions>>

\* results = [{"drug_name": ..., "combined_rate": ..., "score": row.score}
\*            for row in ranked_drugs]; return results
worker_results(w) ==
    /\ threads[w].pc = "results"
    /\ LET t == threads[w]
           held == rows_as_held(t.session, t.ranked_drugs)
       IN  threads' = [threads EXCEPT
                          ![w].pc = "close",
                          ![w].response =
                              Ok([k \in DOMAIN held |->
                                     [drug_name |-> held[k].drug_name,
                                      combined_rate |-> held[k].combined_rate,
                                      score |-> held[k].score]])]
    /\ UNCHANGED <<store, runtime, request, store_raises, response, db, served, sessions>>

\* finally: db.close()
worker_db_close(w) ==
    /\ threads[w].pc = "close"
    /\ threads' = [threads EXCEPT ![w].pc = "done"]
    /\ sessions' = [sessions EXCEPT ![threads[w].session].state = "closed"]
    /\ UNCHANGED <<store, runtime, request, store_raises, response, db, served>>

SharedRows ==
    [side_effect : {"headache"},
     drug_name : {"aspirin", "warfarin"},
     combined_rate : BarklaRates]

InitConcurrent ==
    /\ \E rows \in SeqsUpTo(SharedRows, MaxSharedRows) :
          store = [EmptyStore EXCEPT !.BarklaData = rows]
    /\ runtime = DefaultRuntime
    /\ request = NoRequest
    /\ store_raises = FALSE
    /\ response = NoResponse
    /\ db = "none"
    /\ served = {}
    /\ threads = [w \in Workers |-> IdleThread]
    /\ sessions = [s \in Workers |-> NoSession]

NextConcurrent ==
    \/ \E w \in Workers : worker_get_db(w)
    \/ \E w \in Workers : worker_query(w)
    \/ \E w \in Workers : worker_score(w)
    \/ \E w \in Workers : worker_sorted(w)
    \/ \E w \in Workers : worker_results(w)
    \/ \E w \in Workers : worker_db_close(w)

SpecConcurrent == InitConcurrent /\ [][NextConcurrent]_vars

\* the response of the request when it is the only one served
ServedAlone(r) == culprit_drug(r.side_effect, r.drug_list)

\* C18: however the statements of requests served at the same time
\* interleave, every request has a session of its own, its response is the
\* one it gets when served alone, the objects of its session (with their
\* score attribute) change in its own steps only, and the store's contents
\* never change.
C18_RequestsIsolated ==
    /\ [](\A w \in Workers :
             threads[w].response # NoResponse =>
                threads[w].response = ServedAlone(threads[w].request))
    /\ [](\A v, w \in Workers :
             (v # w /\ threads[v].session # "none") =>
                threads[v].session # threads[w].session)
    /\ [][/\ store' = store
          /\ \A w \in Workers :
                (threads[w].session # "none" /\ threads'[w] = threads[w]) =>
                   sessions'[threads[w].session].objects
                      = sessions[threads[w].session].objects]_vars

\* two requests in flight hold objects of one row with different scores: one
\* has answered from its own while the other has scored and not yet ranked
C18_Witness ==
    /\ threads["w1"].pc = "close"
    /\ threads["w1"].response.status = 200
    /\ threads["w2"].pc = "sorted"
    /\ \E key \in Range(threads["w1"].barkla_data) \cap Range(threads["w2"].barkla_data) :
          /\ store.BarklaData[key].combined_rate > 0
          /\ ~FracEq(sessions[threads["w1"].session].objects[key].score,
                     sessions[threads["w2"].session].objects[key].score)

(***************************************************************************)
(* Failures.                                                               *)
(***************************************************************************)
\* C11: on every endpoint, a failure raised by the store or by the
\* endpoint's own computation ends the request with status 500 whose detail
\* is the error's text; no failure leaves a handler without that response.
C11_FailureIs500WithText ==
    response # NoResponse =>
        /\ response # InternalServerError
        /\ store_raises => response = HTTPException(500, StoreError)
====
